---- MODULE Spec2Model ----
(***************************************************************************)
(* Model of scripts/kp-scraper.py: the KPScraper session (three hidden     *)
(* ASP.NET tokens), its two exchanges (select_model, submit_calculation),  *)
(* the AJAX response parser and the main loop that records one CSV row per *)
(* case.  The remote server is the environment: every fetch and every POST *)
(* either raises (connection error, timeout, non-success status) or        *)
(* returns a body drawn from a small set.                                  *)
(***************************************************************************)
EXTENDS Integers, Sequences, FiniteSets, TLC

\* Longest case list explored (TEST_CASES has 52 entries, --test keeps 5).
MaxCases == 2

\* Python's None, and an optional value as a sequence of length 0 or 1.
None == << >>
Some(x) == << x >>

\* The two calculator versions (first column of TEST_CASES).
Models == {"2017", "2024"}

\* Radio button value sent as rbUU for a model.
model_map(model) == IF model = "2017" THEN "rbUSAHidden1" ELSE "rbUSAHidden2"

\* Incidence dropdown values of the 2017 model, keyed by the incidence column.
INCIDENCE_2017 ==
    ("0.1" :> "38.952265") @@ ("0.2" :> "39.646367") @@ ("0.3" :> "40.05280") @@
    ("0.4" :> "40.34150") @@ ("0.5" :> "40.56560") @@ ("0.6" :> "40.74890") @@
    ("0.7" :> "40.903919") @@ ("0.8" :> "41.0384") @@ ("0.9" :> "41.1571") @@
    ("1.0" :> "41.263432") @@ ("2.0" :> "41.965852") @@ ("4.0" :> "42.676976")

\* The 2024 model's table.
INCIDENCE_2024 ==
    ("0.1" :> "55.2") @@ ("0.2" :> "55.9") @@ ("0.3" :> "56.3") @@
    ("0.4" :> "56.6") @@ ("0.5" :> "57.9") @@ ("0.6" :> "57.0") @@
    ("0.7" :> "57.2") @@ ("0.8" :> "57.3") @@ ("0.9" :> "57.5") @@
    ("1.0" :> "57.6") @@ ("2.0" :> "58.3") @@ ("4.0" :> "59.0")

\* dict.get(key, default)
Get(table, key, default) ==
    IF key \in DOMAIN table THEN table[key] ELSE default

\* The lookup as it would be with the 2017 table for every model.
incidence_value_2017(model, incidence) ==
    Get(INCIDENCE_2017, incidence, "40.56560")

\* The lookup as it would be with one default, the 2017 one, for both
\* models.
incidence_value_one_default(model, incidence) ==
    IF model = "2024"
    THEN Get(INCIDENCE_2024, incidence, "40.56560")
    ELSE Get(INCIDENCE_2017, incidence, "40.56560")

\* The dropdown value submit_calculation sends for a case.
incidence_value(model, incidence) ==
    IF model = "2024"
    THEN Get(INCIDENCE_2024, incidence, "57.9")
    ELSE Get(INCIDENCE_2017, incidence, "40.56560")

\* Incidence column values a case list can hold: the keys of the tables and
\* one that neither table has.
IncidenceInputs == DOMAIN INCIDENCE_2017 \cup DOMAIN INCIDENCE_2024 \cup {"3.0"}

\* Opaque token values a page or a delta frame can carry.
TokVals == {"a", "b"}

\* A landing page input element: no such element, an element without a
\* value attribute, or an element with a value.
NoElem == "<no element>"
NoValueAttr == "<no value attribute>"
PageFields == {NoElem, NoValueAttr} \cup TokVals

\* Landing pages explored: at most one of the three inputs is not a plain
\* element with a value.
LandingPages ==
    {p \in [vs : PageFields, vsg : PageFields, ev : PageFields] :
        /\ Cardinality({f \in {"vs", "vsg", "ev"} : p[f] \notin TokVals}) <= 1
        /\ \A f \in {"vs", "vsg", "ev"} : p[f] # "b"}

\* soup.find('input', {'name': n}) followed by  x['value'] if x else None;
\* an element without the attribute raises KeyError.
PageRaises(page) ==
    \E f \in {"vs", "vsg", "ev"} : page[f] = NoValueAttr

PageToken(page, f) == IF page[f] = NoElem THEN None ELSE Some(page[f])

\* A delta frame field  |<name>|<value>|  : absent, empty, or a value.
NotInFrame == "<not in frame>"
FrameFields == {NotInFrame, ""} \cup TokVals

\* re.search(r'\|<name>\|([^|]+)\|', text): a match needs a non-empty value.
ReSearchFrame(text, f) ==
    IF text[f] \in TokVals THEN Some(text[f]) ELSE None

\* Text between  <span id="lbl...">  and  <  for one result element.
ResultTexts == {NoElem, "", "N/A", ".", "1.2.3", "0", "0.0", "7"}

\* re.search(r'lbl...[^>]*>([0-9.]+)<', text): digits and dots, at least one.
ReSearchResult(text, f) ==
    IF text[f] \in {".", "1.2.3", "0", "0.0", "7"} THEN Some(text[f]) ELSE None

\* float(s) as it would be if ValueError produced 0.0.
ToFloatOrZero(s) ==
    CASE s \in {"0", "0.0"} -> Some(0)
      [] s = "7" -> Some(7)
      [] OTHER -> Some(0)

\* float(s), with ValueError swallowed by the caller (value stays None).
\* Numbers are kept as integers: "0" and "0.0" are 0.0 and "7" is 7.0.
ToFloat(s) ==
    CASE s \in {"0", "0.0"} -> Some(0)
      [] s = "7" -> Some(7)
      [] OTHER -> None

ParseResult(text, f) ==
    LET m == ReSearchResult(text, f)
    IN  IF m = None THEN None ELSE ToFloat(m[1])

ResultFields == {"eos", "well", "equi", "clin"}

\* Result parts of the response bodies explored: all four elements alike,
\* and one body whose elements differ.
ResultBodies ==
    {[f \in ResultFields |-> NoElem],
     [eos |-> "7", well |-> "0", equi |-> "", clin |-> "."]}

\* The error part of a response: its class="ErrorMessage" elements in
\* document order, each with or without display:none in its style and with
\* its text, and whether display:none occurs anywhere else in the response.
ErrTexts == {"", " ", "Invalid input", " Invalid input "}

ErrContainers == [hidden : BOOLEAN, text : ErrTexts]

ErrBodies ==
    [containers : {<< >>} \cup {<<c>> : c \in ErrContainers}
                    \cup {<<c, d>> : c \in ErrContainers, d \in ErrContainers},
     elsewhere : BOOLEAN]

\* The server's default, a hidden and empty container, and a shown one.
HiddenError ==
    [containers |-> <<[hidden |-> TRUE, text |-> ""]>>, elsewhere |-> FALSE]

ShownError ==
    [containers |-> <<[hidden |-> FALSE, text |-> "Invalid input"]>>,
     elsewhere |-> FALSE]

ErrKinds == {HiddenError, ShownError}

\* str.strip()
Strip(t) ==
    CASE t = " " -> ""
      [] t = " Invalid input " -> "Invalid input"
      [] OTHER -> t

\* 'ErrorMessage' in response_text
HasErrorMessage(e) == Len(e.containers) > 0

\* 'display:none' in response_text
HasDisplayNone(e) ==
    e.elsewhere \/ \E k \in 1..Len(e.containers) : e.containers[k].hidden

\* re.search(r'class="ErrorMessage"[^>]*>([^<]+)', text): the first
\* container followed by at least one character of text.
ReSearchError(e) ==
    LET matches == {k \in 1..Len(e.containers) : e.containers[k].text # ""}
    IN  IF matches = {} THEN None
        ELSE Some(e.containers[CHOOSE k \in matches :
                                   \A j \in matches : k <= j].text)

\* The error check as it would be without the display:none test.
ParseErrorAnyContainer(text) ==
    LET m == ReSearchError(text.err)
    IN  IF HasErrorMessage(text.err) /\ m # None THEN Strip(m[1]) ELSE ""

\* 'ErrorMessage' in text and 'display:none' not in text, then the text of
\* the class="ErrorMessage" element, stripped.
ParseError(text) ==
    LET m == ReSearchError(text.err)
    IN  IF HasErrorMessage(text.err) /\ ~HasDisplayNone(text.err) /\ m # None
        THEN Strip(m[1])
        ELSE ""

\* Token parts of the delta frames explored: the server issues the tokens
\* of one response together, and a frame carries any subset of the three.
Frames ==
    {[f \in {"vs", "vsg", "ev"} |-> IF f \in present THEN t ELSE NotInFrame] :
        present \in SUBSET {"vs", "vsg", "ev"}, t \in TokVals}

\* Bodies of the responses to the compute postback: results and no visible
\* error, or no result element with the error container hidden or shown.
Responses ==
    {r \in {[vs |-> fr.vs, vsg |-> fr.vsg, ev |-> fr.ev, eos |-> b.eos,
             well |-> b.well, equi |-> b.equi, clin |-> b.clin, err |-> k] :
               fr \in Frames, b \in ResultBodies, k \in ErrKinds} :
        r.eos = NoElem \/ r.err = HiddenError}

\* Bodies of the responses to the model selection postback (no results).
SelectResponses ==
    {r \in Responses :
        /\ \A f \in ResultFields : r[f] = NoElem
        /\ r.err = HiddenError}

\* str(e) of the exceptions requests raises.
TransportErrors == {"ReadTimeout", "HTTPError 500"}

\* The header row written by csv.writer at lines 426-431.
Header == [kind |-> "header"]

\* str(x) of a float result, as csv.writer writes it.
FloatStr(x) == IF x = 0 THEN "0.0" ELSE "7.0"

\* risk_birth if risk_birth is not None else 'ERROR'
\* The cell as it would be with  x if x else 'ERROR'.
CellIfTruthy(v) == IF v # None /\ v[1] # 0 THEN FloatStr(v[1]) ELSE "ERROR"

Cell(v) == IF v # None THEN FloatStr(v[1]) ELSE "ERROR"

\* Output files found at startup: missing, empty, or the header followed by
\* k rows of an earlier run whose exchanges all failed.
PriorRow(k) ==
    [kind |-> "record", CaseNum |-> k, Model |-> "2017", KP_RiskAtBirth |-> "ERROR",
     KP_WellAppearing |-> "ERROR", KP_Equivocal |-> "ERROR",
     KP_ClinicalIllness |-> "ERROR", Debug |-> "ReadTimeout"]

PriorFiles ==
    {[exists |-> FALSE, rows |-> << >>], [exists |-> TRUE, rows |-> << >>]}
    \cup {[exists |-> TRUE,
           rows |-> <<Header>> \o [k \in 1..n |-> PriorRow(k)]] :
             n \in 0..MaxCases}

VARIABLES
    pc,                  \* position in main()
    outfile,             \* args.output: [exists, rows]
    cases,               \* the case list, model column
    incidences,          \* the case list, incidence column
    start_index,         \* main's start_index
    i,                   \* loop variable of main
    viewstate,           \* KPScraper.viewstate
    viewstate_generator, \* KPScraper.viewstate_generator
    event_validation,    \* KPScraper.event_validation
    response,            \* the response (or exception) of the call in progress
    selected,            \* sub-mode the server session has selected
    selected_before,     \* value of selected when the current item began
    sent,                \* requests POSTed for the current item
    result,              \* return value of submit_calculation
    appended,            \* indexes of the cases recorded in this run
    seen,                \* latest __VIEWSTATE, __EVENTVALIDATION a response carried
    log                  \* requests and sleeps of the run, in order

vars == <<pc, outfile, cases, incidences, start_index, i, viewstate,
          viewstate_generator, event_validation, response, selected,
          selected_before, sent, result, appended, seen, log>>

session == <<viewstate, viewstate_generator, event_validation>>

Range(seq) == {seq[k] : k \in 1..Len(seq)}

NoResponse == [status |-> "none"]
Raised(e) == [status |-> "raised", error |-> e]
Returned(text) == [status |-> "ok", text |-> text]

NoResult == [risk_birth |-> None, well_appearing |-> None, equivocal |-> None,
             clinical_illness |-> None, debug |-> ""]

\* cases[k] with Python's indexing: 0-based, negative from the end.
CaseIndex(k) == IF k >= 0 THEN k + 1 ELSE Len(cases) + k + 1
Case(k) == cases[CaseIndex(k)]
Incidence(k) == incidences[CaseIndex(k)]

Init ==
    /\ pc = "start"
    /\ outfile \in PriorFiles
    /\ cases \in UNION {[1..n -> Models] : n \in 1..MaxCases}
    /\ incidences = [k \in 1..Len(cases) |-> "0.5"]
    /\ start_index = 0
    /\ i = 0
    /\ viewstate = None
    /\ viewstate_generator = None
    /\ event_validation = None
    /\ response = NoResponse
    /\ selected = "2017"
    /\ selected_before = "2017"
    /\ sent = << >>
    /\ result = NoResult
    /\ appended = << >>
    /\ seen = [vs |-> None, ev |-> None]
    /\ log = << >>

\* What the server has handed out: the landing page's inputs that carry a
\* value, and the frame fields of a response to a POST.
PageSeen(old, page) ==
    [f \in {"vs", "ev"} |-> IF page[f] \in TokVals THEN Some(page[f]) ELSE old[f]]

FrameSeen(old, text) ==
    [f \in {"vs", "ev"} |-> IF text[f] = NotInFrame THEN old[f] ELSE Some(text[f])]

\* main, lines 411-420: rows in the file minus the header, when resuming.
ResumeIndex(resume) ==
    IF resume /\ outfile.exists THEN Len(outfile.rows) - 1 ELSE 0

\* main, lines 408-435: resume check and CSV initialisation.
Startup ==
    /\ pc = "start"
    /\ \E resume \in BOOLEAN :
        /\ start_index' = ResumeIndex(resume)
        /\ outfile' = IF ResumeIndex(resume) = 0
                      THEN [exists |-> TRUE, rows |-> <<Header>>]
                      ELSE outfile
    /\ pc' = "init"
    /\ UNCHANGED <<seen, log>>
    /\ UNCHANGED <<cases, incidences, i, viewstate, viewstate_generator,
                   event_validation, response, selected, selected_before,
                   sent, result, appended>>

\* get_initial_page, lines 171-172: the GET returns the landing page.
FetchInitialPage ==
    /\ pc = "init"
    /\ \E page \in LandingPages : response' = Returned(page)
    /\ pc' = "init_parse"
    /\ seen' = PageSeen(seen, response'.text)
    /\ log' = Append(log, "GET")
    /\ UNCHANGED <<outfile, cases, incidences, start_index, i, viewstate,
                   viewstate_generator, event_validation, selected,
                   selected_before, sent, result, appended>>

\* get_initial_page, lines 171-172 and 187-189, main, lines 441-443: the GET
\* or raise_for_status raises, get_initial_page returns False, main returns.
FetchInitialPageFail ==
    /\ pc = "init"
    /\ \E e \in TransportErrors : response' = Raised(e)
    /\ pc' = "fatal"
    /\ log' = Append(log, "GET")
    /\ UNCHANGED seen
    /\ UNCHANGED <<outfile, cases, incidences, start_index, i, viewstate,
                   viewstate_generator, event_validation, selected,
                   selected_before, sent, result, appended>>

\* get_initial_page, lines 174-185: the three inputs are read and the
\* function returns True; the loop of main starts at start_index.
ParseInitialPage ==
    /\ pc = "init_parse"
    /\ ~PageRaises(response.text)
    /\ viewstate' = PageToken(response.text, "vs")
    /\ viewstate_generator' = PageToken(response.text, "vsg")
    /\ event_validation' = PageToken(response.text, "ev")
    /\ response' = NoResponse
    /\ i' = start_index
    /\ pc' = "loop"
    /\ UNCHANGED <<seen, log>>
    /\ UNCHANGED <<outfile, cases, incidences, start_index, selected,
                   selected_before, sent, result, appended>>

\* get_initial_page, lines 180-182 and 187-189: an input without a value
\* attribute raises KeyError; the assignments made before it stay, and main
\* returns (lines 441-443).
ParseInitialPageFail ==
    /\ pc = "init_parse"
    /\ PageRaises(response.text)
    /\ viewstate' =
         IF response.text.vs = NoValueAttr THEN viewstate
         ELSE PageToken(response.text, "vs")
    /\ viewstate_generator' =
         IF NoValueAttr \in {response.text.vs, response.text.vsg}
         THEN viewstate_generator
         ELSE PageToken(response.text, "vsg")
    /\ response' = Raised("KeyError: 'value'")
    /\ pc' = "fatal"
    /\ UNCHANGED <<seen, log>>
    /\ UNCHANGED <<outfile, cases, incidences, start_index, i, event_validation,
                   selected, selected_before, sent, result, appended>>

\* The session fields of form_data, as select_model and submit_calculation
\* build it (lines 201-212 and 272-312).
FormData(target, model) ==
    [target |-> target, rbUU |-> model_map(model),
     ddlIncidence |-> IF target = "btnCalc"
                      THEN Some(incidence_value(model, Incidence(i)))
                      ELSE None,
     VIEWSTATE |-> viewstate, VIEWSTATEGENERATOR |-> viewstate_generator,
     EVENTVALIDATION |-> event_validation]

\* The refresh as it would be if a field the response lacks were cleared.
RefreshedOrCleared(old, text, f) == ReSearchFrame(text, f)

\* The refresh as it would be if a value equal to the stored one were
\* taken for no value and the field reset.
RefreshedOrReset(old, text, f) ==
    LET m == ReSearchFrame(text, f)
    IN  IF m # None /\ m # old THEN m ELSE None

\* The token update of lines 219-225 and 370-376:
\*   m = re.search(...); if m: self.<token> = m.group(1)
Refreshed(old, text, f) ==
    LET m == ReSearchFrame(text, f)
    IN  IF m # None THEN m ELSE old

\* main, lines 446-453, and submit_calculation, lines 234-237: the loop
\* takes the next case; a 2024 case starts with select_model.
BeginItem ==
    /\ pc = "loop"
    /\ i < Len(cases)
    /\ selected_before' = selected
    /\ sent' = << >>
    /\ pc' = IF Case(i) = "2024" THEN "select" ELSE "compute"
    /\ UNCHANGED <<seen, log>>
    /\ UNCHANGED <<outfile, cases, incidences, start_index, i, viewstate,
                   viewstate_generator, event_validation, response,
                   selected, result, appended>>

\* main, lines 484-487: the range is exhausted.
Finish ==
    /\ pc = "loop"
    /\ i >= Len(cases)
    /\ pc' = "done"
    /\ UNCHANGED <<seen, log>>
    /\ UNCHANGED <<outfile, cases, incidences, start_index, i, viewstate,
                   viewstate_generator, event_validation, response,
                   selected, selected_before, sent, result, appended>>

\* select_model("2024"), lines 201-216: the POST returns a response; the
\* server has switched the session to the 2024 model.
SelectModelPost ==
    /\ pc = "select"
    /\ \E text \in SelectResponses : response' = Returned(text)
    /\ sent' = Append(sent, FormData("btnUSA", "2024"))
    /\ selected' = "2024"
    /\ pc' = "select_parse"
    /\ seen' = FrameSeen(seen, response'.text)
    /\ log' = Append(log, "select")
    /\ UNCHANGED <<outfile, cases, incidences, start_index, i, viewstate,
                   viewstate_generator, event_validation, selected_before,
                   result, appended>>

\* select_model, lines 218-227: the tokens are updated from the response.
SelectModelRefresh ==
    /\ pc = "select_parse"
    /\ viewstate' = Refreshed(viewstate, response.text, "vs")
    /\ event_validation' = Refreshed(event_validation, response.text, "ev")
    /\ response' = NoResponse
    /\ pc' = "settle"
    /\ UNCHANGED <<seen, log>>
    /\ UNCHANGED <<outfile, cases, incidences, start_index, i, viewstate_generator,
                   selected, selected_before, sent, result, appended>>

\* select_model failing as it would be if submit_calculation did not test
\* its return value.
SelectModelFailIgnored ==
    /\ pc = "select"
    /\ \E e \in TransportErrors : response' = Raised(e)
    /\ sent' = Append(sent, FormData("btnUSA", "2024"))
    /\ pc' = "settle"
    /\ log' = Append(log, "select")
    /\ UNCHANGED seen
    /\ UNCHANGED <<outfile, cases, incidences, start_index, i, viewstate,
                   viewstate_generator, event_validation, selected,
                   selected_before, result, appended>>

\* Mutant of SelectModelFail: the exception leaves select_model and ends
\* the run.
SelectModelFailAborts ==
    /\ pc = "select"
    /\ \E e \in TransportErrors : response' = Raised(e)
    /\ sent' = Append(sent, FormData("btnUSA", "2024"))
    /\ pc' = "fatal"
    /\ log' = Append(log, "select")
    /\ UNCHANGED seen
    /\ UNCHANGED <<outfile, cases, incidences, start_index, i, viewstate,
                   viewstate_generator, event_validation, selected,
                   selected_before, result, appended>>

\* select_model("2024") raising, lines 228-230, and submit_calculation
\* returning at line 239.
SelectModelFail ==
    /\ pc = "select"
    /\ \E e \in TransportErrors : response' = Raised(e)
    /\ sent' = Append(sent, FormData("btnUSA", "2024"))
    /\ result' = [NoResult EXCEPT !.debug = "Failed to select 2024 model"]
    /\ pc' = "record"
    /\ log' = Append(log, "select")
    /\ UNCHANGED seen
    /\ UNCHANGED <<outfile, cases, incidences, start_index, i, viewstate,
                   viewstate_generator, event_validation, selected,
                   selected_before, appended>>

\* time.sleep(0.5), line 240.
Settle ==
    /\ pc = "settle"
    /\ pc' = "compute"
    /\ log' = Append(log, "settle")
    /\ UNCHANGED seen
    /\ UNCHANGED <<outfile, cases, incidences, start_index, i, viewstate,
                   viewstate_generator, event_validation, response,
                   selected, selected_before, sent, result, appended>>

\* submit_calculation, lines 242-316: the compute POST returns a response;
\* the request carried rbUU, so the server session is on the case's model.
SubmitPost ==
    /\ pc = "compute"
    /\ \E text \in Responses : response' = Returned(text)
    /\ sent' = Append(sent, FormData("btnCalc", Case(i)))
    /\ selected' = Case(i)
    /\ pc' = "parse"
    /\ seen' = FrameSeen(seen, response'.text)
    /\ log' = Append(log, "compute")
    /\ UNCHANGED <<outfile, cases, incidences, start_index, i, viewstate,
                   viewstate_generator, event_validation, selected_before,
                   result, appended>>

\* The four values and the diagnostic text _parse_ajax_response returns.
ParsedResult(text) ==
    [risk_birth |-> ParseResult(text, "eos"),
     well_appearing |-> ParseResult(text, "well"),
     equivocal |-> ParseResult(text, "equi"),
     clinical_illness |-> ParseResult(text, "clin"),
     debug |-> ParseError(text)]

\* _parse_ajax_response(response_text), lines 325-384: the returned tuple
\* and the session fields it assigns.
parse_ajax_response(response_text) ==
    /\ result' = ParsedResult(response_text)
    /\ viewstate' = Refreshed(viewstate, response_text, "vs")
    /\ event_validation' = Refreshed(event_validation, response_text, "ev")

\* The call of _parse_ajax_response and the return of line 319.
ParseAjaxResponse ==
    /\ pc = "parse"
    /\ parse_ajax_response(response.text)
    /\ response' = NoResponse
    /\ pc' = "record"
    /\ UNCHANGED <<seen, log>>
    /\ UNCHANGED <<outfile, cases, incidences, start_index, i, viewstate_generator,
                   selected, selected_before, sent, appended>>

\* Mutant of ErrorResult: zeros are returned in place of None.
ErrorResultZeros(e) ==
    [risk_birth |-> Some(0), well_appearing |-> Some(0),
     equivocal |-> Some(0), clinical_illness |-> Some(0), debug |-> e]

\* return None, None, None, None, str(e), line 323.
ErrorResult(e) == [NoResult EXCEPT !.debug = e]

\* The compute POST raising, lines 314-316 and 321-323.
SubmitFail ==
    /\ pc = "compute"
    /\ \E e \in TransportErrors :
        /\ response' = Raised(e)
        /\ result' = ErrorResult(e)
    /\ sent' = Append(sent, FormData("btnCalc", Case(i)))
    /\ pc' = "record"
    /\ log' = Append(log, "compute")
    /\ UNCHANGED seen
    /\ UNCHANGED <<outfile, cases, incidences, start_index, i, viewstate,
                   viewstate_generator, event_validation, selected,
                   selected_before, appended>>

\* The row of lines 458-466 (the input columns other than the model, and
\* the timestamp, are left out).
Row(k, r) ==
    [kind |-> "record", CaseNum |-> k + 1, Model |-> Case(k),
     KP_RiskAtBirth |-> Cell(r.risk_birth),
     KP_WellAppearing |-> Cell(r.well_appearing),
     KP_Equivocal |-> Cell(r.equivocal),
     KP_ClinicalIllness |-> Cell(r.clinical_illness),
     Debug |-> r.debug]

\* The loop body as it would be without the sleep between cases.
LogResultNoWait ==
    /\ pc = "record"
    /\ outfile' = [exists |-> TRUE,
                   rows |-> Append(outfile.rows, Row(i, result))]
    /\ appended' = Append(appended, CaseIndex(i))
    /\ response' = NoResponse
    /\ pc' = "loop" /\ i' = i + 1
    /\ UNCHANGED <<seen, log>>
    /\ UNCHANGED <<cases, incidences, start_index, viewstate, viewstate_generator,
                   event_validation, selected, selected_before, sent,
                   result>>

\* main, lines 453-482 up to the sleep: submit_calculation has returned,
\* the row is appended, and the loop waits unless this was the last case.
LogResult ==
    /\ pc = "record"
    /\ outfile' = [exists |-> TRUE,
                   rows |-> Append(outfile.rows, Row(i, result))]
    /\ appended' = Append(appended, CaseIndex(i))
    /\ response' = NoResponse
    /\ IF i < Len(cases) - 1
       THEN pc' = "wait" /\ i' = i
       ELSE pc' = "loop" /\ i' = i + 1
    /\ UNCHANGED <<seen, log>>
    /\ UNCHANGED <<cases, incidences, start_index, viewstate, viewstate_generator,
                   event_validation, selected, selected_before, sent,
                   result>>

\* time.sleep(args.delay), line 482, and the next iteration.
RateLimit ==
    /\ pc = "wait"
    /\ i' = i + 1
    /\ pc' = "loop"
    /\ log' = Append(log, "wait")
    /\ UNCHANGED seen
    /\ UNCHANGED <<outfile, cases, incidences, start_index, viewstate,
                   viewstate_generator, event_validation, response,
                   selected, selected_before, sent, result, appended>>

Next ==
    \/ Startup
    \/ FetchInitialPage
    \/ FetchInitialPageFail
    \/ ParseInitialPage
    \/ ParseInitialPageFail
    \/ BeginItem
    \/ Finish
    \/ SelectModelPost
    \/ SelectModelRefresh
    \/ SelectModelFail
    \/ Settle
    \/ SubmitPost
    \/ ParseAjaxResponse
    \/ SubmitFail
    \/ LogResult
    \/ RateLimit

Spec == Init /\ [][Next]_vars

\* The response parser on its own: _parse_ajax_response is handed one
\* response text twice in a row, from a session in any state. The texts vary
\* the four result elements, or the three frame fields together with the
\* session, or the error part.
NoResults == [f \in ResultFields |-> NoElem]

NoFrame == [f \in {"vs", "vsg", "ev"} |-> NotInFrame]

ResponseText(fr, b, e) ==
    [vs |-> fr.vs, vsg |-> fr.vsg, ev |-> fr.ev, eos |-> b.eos,
     well |-> b.well, equi |-> b.equi, clin |-> b.clin, err |-> e]

Tokens == {None} \cup {Some(t) : t \in TokVals}

InitParse ==
    /\ pc = "p_once"
    /\ outfile = [exists |-> FALSE, rows |-> << >>]
    /\ cases = <<"2017">>
    /\ incidences = <<"0.5">>
    /\ start_index = 0
    /\ i = 0
    /\ viewstate_generator \in Tokens
    /\ selected = "2017"
    /\ selected_before = "2017"
    /\ sent = << >>
    /\ result = NoResult
    /\ appended = << >>
    /\ seen = [vs |-> None, ev |-> None]
    /\ log = << >>
    /\ \/ /\ viewstate \in Tokens
          /\ event_validation \in Tokens
          /\ \E fr \in [vs : FrameFields, vsg : FrameFields, ev : FrameFields] :
                 response = Returned(ResponseText(fr, NoResults, HiddenError))
       \/ /\ viewstate = Some("a")
          /\ event_validation = Some("a")
          /\ viewstate_generator = Some("a")
          /\ \/ \E b \in [ResultFields -> ResultTexts] :
                    response = Returned(ResponseText(NoFrame, b, HiddenError))
             \/ \E e \in ErrBodies :
                    response = Returned(ResponseText(NoFrame, NoResults, e))

ParseOnce ==
    /\ pc = "p_once"
    /\ parse_ajax_response(response.text)
    /\ pc' = "p_again"
    /\ UNCHANGED <<outfile, cases, incidences, start_index, i,
                   viewstate_generator, response, selected, selected_before,
                   sent, appended, seen, log>>

ParseAgain ==
    /\ pc = "p_again"
    /\ parse_ajax_response(response.text)
    /\ pc' = "p_done"
    /\ UNCHANGED <<outfile, cases, incidences, start_index, i,
                   viewstate_generator, response, selected, selected_before,
                   sent, appended, seen, log>>

NextParse ==
    \/ ParseOnce
    \/ ParseAgain

SpecParse == InitParse /\ [][NextParse]_vars

\* Runs over a fresh output file of two cases that share an incidence column
\* value drawn from IncidenceInputs.
InitIncidence ==
    /\ pc = "start"
    /\ outfile = [exists |-> FALSE, rows |-> << >>]
    /\ cases \in [1..2 -> Models]
    /\ incidences \in {[k \in 1..2 |-> key] : key \in IncidenceInputs}
    /\ start_index = 0
    /\ i = 0
    /\ viewstate = None
    /\ viewstate_generator = None
    /\ event_validation = None
    /\ response = NoResponse
    /\ selected = "2017"
    /\ selected_before = "2017"
    /\ sent = << >>
    /\ result = NoResult
    /\ appended = << >>
    /\ seen = [vs |-> None, ev |-> None]
    /\ log = << >>

SpecIncidence == InitIncidence /\ [][Next]_vars

(***************************************************************************)
(* Properties                                                              *)
(***************************************************************************)

\* The ctl00$ctl08 targets of the requests POSTed for the current item.
Targets == [k \in 1..Len(sent) |-> sent[k].target]

\* The current item asks for a sub-mode other than the one the server
\* session has selected.
Differs == Case(i) # selected_before

Count(seq, x) == Cardinality({k \in 1..Len(seq) : seq[k] = x})

LastRow == outfile.rows[Len(outfile.rows)]

\* C1: for every item whose sub-mode differs from the one the session has
\* selected, the compute exchange is preceded by exactly one mode-switch
\* exchange for the requested sub-mode, and once the compute exchange is
\* issued the item's exchanges are the mode switch then the compute, in
\* both directions (2017 to 2024 and 2024 to 2017).
C1_SwitchBeforeCompute ==
    /\ (pc = "compute" /\ Differs) =>
          /\ Targets = <<"btnUSA">>
          /\ sent[1].rbUU = model_map(Case(i))
    /\ (pc \in {"parse", "record"} /\ Differs /\ "btnCalc" \in Range(Targets)) =>
          Targets = <<"btnUSA", "btnCalc">>

\* C2: for every item whose sub-mode equals the one the session has
\* selected, no mode-switch exchange is issued, and the compute exchange is
\* the item's only exchange.
C2_NoSwitchWhenSame ==
    (pc \in {"select", "select_parse", "settle", "compute", "parse", "record"}
       /\ ~Differs) =>
          /\ "btnUSA" \notin Range(Targets)
          /\ pc \in {"parse", "record"} => Targets = <<"btnCalc">>

\* The landing page lacks one of the three hidden fields.
LacksField(page) == \E f \in {"vs", "vsg", "ev"} : page[f] = NoElem

C3_Step ==
    (pc = "init_parse" /\ LacksField(response.text)) =>
        (pc' = "fatal" /\ sent' = << >>)

\* C3: when the landing page lacks one of the three hidden fields,
\* initialization fails and the run aborts; no exchange has been issued.
C3_MissingFieldIsFatal == [][C3_Step]_vars

\* C4: every mode-switch or compute request carries all three session
\* tokens, none of them None.
C4_TokensPresentInRequests ==
    \A k \in 1..Len(sent) :
        /\ sent[k].VIEWSTATE # None
        /\ sent[k].VIEWSTATEGENERATOR # None
        /\ sent[k].EVENTVALIDATION # None

\* C5: when the run is complete, every case from start_index to the end of
\* the list has exactly one record appended in this run, and no other case
\* has any.
C5_OneRecordPerItem ==
    pc = "done" =>
        \A k \in 1..Len(cases) :
            Count(appended, k) = IF k - 1 >= start_index THEN 1 ELSE 0

C6_Step ==
    /\ (pc = "compute" /\ response'.status = "raised") =>
          /\ pc' = "record"
          /\ result'.risk_birth = None
          /\ result'.well_appearing = None
          /\ result'.equivocal = None
          /\ result'.clinical_illness = None
          /\ result'.debug = response'.error
          /\ result'.debug # ""
    /\ (pc = "record" /\ response.status = "raised"
          /\ "btnCalc" \in Range(Targets)) =>
          /\ Len(outfile'.rows) = Len(outfile.rows) + 1
          /\ LastRow'.CaseNum = i + 1
          /\ LastRow'.KP_RiskAtBirth = "ERROR"
          /\ LastRow'.KP_WellAppearing = "ERROR"
          /\ LastRow'.KP_Equivocal = "ERROR"
          /\ LastRow'.KP_ClinicalIllness = "ERROR"
          /\ LastRow'.Debug = response.error
          /\ pc' = IF i < Len(cases) - 1 THEN "wait" ELSE "loop"
    /\ pc = "wait" => (pc' = "loop" /\ i' = i + 1)
    /\ (pc = "loop" /\ i < Len(cases)) => pc' \in {"select", "compute"}

\* C6: a compute exchange that fails at the transport layer returns four
\* absent values with the failure description as diagnostic text, the row
\* is still written, and the loop goes to the rate-limit wait and then to
\* the next item.
C6_TransportFailureContained == [][C6_Step]_vars

\* A compute exchange failed, its row is written, and the loop has gone on
\* to the next item.
C6_Witness ==
    /\ pc \in {"select", "compute"}
    /\ appended # << >>
    /\ LastRow.Debug \in TransportErrors
    /\ LastRow.KP_RiskAtBirth = "ERROR"

\* The states of the run: AwaitingToken, Ready, Fatal.
Phase ==
    CASE pc \in {"start", "init", "init_parse"} -> "AwaitingToken"
      [] pc = "fatal" -> "Fatal"
      [] OTHER -> "Ready"

C7_Step ==
    /\ <<Phase, Phase'>> \in
          {<<"AwaitingToken", "AwaitingToken">>, <<"AwaitingToken", "Ready">>,
           <<"AwaitingToken", "Fatal">>, <<"Ready", "Ready">>,
           <<"Fatal", "Fatal">>}
    /\ (Phase = "AwaitingToken" /\ Phase' = "Fatal") =>
          response'.status = "raised"
    /\ (pc \in {"select", "compute"} /\ response'.status = "raised") =>
          pc' = "record"
    /\ (pc = "record") =>
          (pc' \in {"wait", "loop"} /\ appended' = Append(appended, CaseIndex(i)))
    /\ pc' = "done" => i' >= Len(cases)

\* C7: the run goes AwaitingToken -> Ready -> Ready, Fatal is entered only
\* from AwaitingToken when initialization raises, a failed mode-switch or
\* compute exchange leads to the item's record, and a finished run has
\* attempted every case from start_index on.
C7_StateMachine ==
    /\ [][C7_Step]_vars
    /\ [](pc = "done" =>
            \A k \in 1..Len(cases) :
                k - 1 >= start_index => Count(appended, k) >= 1)

\* A run that finished after a failed mode switch and a failed compute.
C7_Witness ==
    /\ pc = "done"
    /\ \E k \in 1..Len(outfile.rows) :
          outfile.rows[k].kind = "record"
          /\ outfile.rows[k].Debug = "Failed to select 2024 model"
    /\ LastRow.Debug \in TransportErrors

\* The session token a frame field refreshes.
Token(f) ==
    CASE f = "vs" -> viewstate
      [] f = "vsg" -> viewstate_generator
      [] f = "ev" -> event_validation

C8_Step ==
    pc \in {"select_parse", "parse"} =>
        \A f \in {"vs", "vsg", "ev"} :
            Token(f)' = IF response.text[f] = NotInFrame
                        THEN Token(f)
                        ELSE Some(response.text[f])

\* C8: when a mode-switch or compute response is processed, a token the
\* response does not contain keeps its value, and a token the response
\* contains takes the response's value.
C8_RetainOrUpdate == [][C8_Step]_vars

C9_Step ==
    (pc \in {"select_parse", "parse"}
       /\ \A f \in {"vs", "vsg", "ev"} : response.text[f] \in TokVals) =>
        session' = <<Some(response.text.vs), Some(response.text.vsg),
                     Some(response.text.ev)>>

\* C9: after a response that carries all three tokens, the session holds
\* exactly the three values of that response.
C9_ReplacedTogether == [][C9_Step]_vars

C10_Step ==
    (pc = "parse"
       /\ ParsedResult(response.text).risk_birth = None
       /\ ParsedResult(response.text).well_appearing = None
       /\ ParsedResult(response.text).equivocal = None
       /\ ParsedResult(response.text).clinical_illness = None) =>
        \A f \in {"vs", "vsg", "ev"} :
            response.text[f] \in TokVals =>
                Token(f)' = Some(response.text[f])

\* C10: after a compute response from which no result value is parsed,
\* every session token the response contains has the response's value.
C10_RefreshWithoutResults == [][C10_Step]_vars

\* The table of a sub-mode, the values of a table, and the compute requests
\* among those sent for the current item.
Table(m) == IF m = "2017" THEN INCIDENCE_2017 ELSE INCIDENCE_2024

Values(table) == {table[k] : k \in DOMAIN table}

ComputeRequests == {k \in 1..Len(sent) : sent[k].target = "btnCalc"}

\* C11: the incidence adjustment is looked up by (sub-mode, category). For
\* every category key of the tables the 2017 value differs from the 2024
\* value, the two tables share no value, and a compute request for a case
\* of sub-mode m whose category is a key carries m's own table entry.
C11_IncidenceBySubMode ==
    /\ DOMAIN INCIDENCE_2017 = DOMAIN INCIDENCE_2024
    /\ \A key \in DOMAIN INCIDENCE_2017 :
           INCIDENCE_2017[key] # INCIDENCE_2024[key]
    /\ Values(INCIDENCE_2017) \cap Values(INCIDENCE_2024) = {}
    /\ pc \in {"parse", "record"} /\ Incidence(i) \in DOMAIN Table(Case(i))
           => \A k \in ComputeRequests :
                  sent[k].ddlIncidence = Some(Table(Case(i))[Incidence(i)])

\* A 2024 case of category "0.5" has sent its compute request, which
\* carries "57.9".
C11_Witness ==
    /\ pc = "parse"
    /\ Case(i) = "2024"
    /\ Incidence(i) = "0.5"
    /\ \E k \in ComputeRequests : sent[k].ddlIncidence = Some("57.9")

\* Positions of an event in the run's log, and the events strictly between
\* two positions.
Positions(ev) == {k \in 1..Len(log) : log[k] = ev}

Between(p, q) == {log[k] : k \in (p + 1)..(q - 1)}

\* C12: a rate-limit wait occurs between any two consecutive compute
\* exchanges, and a settle wait occurs between every mode-switch exchange
\* and the compute exchange that follows it for the same item.
C12_WaitsBetweenExchanges ==
    /\ \A p \in Positions("compute") : \A q \in Positions("compute") :
           p < q => "wait" \in Between(p, q)
    /\ \A p \in Positions("select") : \A q \in Positions("compute") :
           p < q /\ Between(p, q) \cap {"select", "compute", "wait"} = {}
               => "settle" \in Between(p, q)

\* A compute, the rate-limit wait, then a mode switch, the settle wait and
\* the next compute.
C12_Witness ==
    \E p \in Positions("compute") :
        /\ p + 4 <= Len(log)
        /\ log[p + 1] = "wait"
        /\ log[p + 2] = "select"
        /\ log[p + 3] = "settle"
        /\ log[p + 4] = "compute"

\* The POSTs of the run.
Requests == Positions("select") \cup Positions("compute")

\* C13: at most one HTTP request per rate-limit interval: any two requests
\* sent after the initial page fetch, mode-switch or compute, have a
\* rate-limit wait between them.
C13_OneRequestPerInterval ==
    \A p \in Requests : \A q \in Requests :
        p < q => "wait" \in Between(p, q)

\* The records of the output file that carry case number k.
RecordsOf(k) ==
    {j \in 1..Len(outfile.rows) :
        outfile.rows[j].kind = "record" /\ outfile.rows[j].CaseNum = k}

\* C14: whatever the output file held at startup (missing, empty, header
\* only, header plus k records, k at most the number of cases), a completed
\* run leaves the header followed by records in which every case number
\* occurs exactly once and no other number occurs.
C14_ResumeRecordsEachOnce ==
    pc = "done" /\ start_index <= Len(cases) =>
        /\ outfile.rows[1] = Header
        /\ Len(outfile.rows) = Len(cases) + 1
        /\ \A k \in 1..Len(cases) : Cardinality(RecordsOf(k)) = 1

\* The element texts that are numbers, those equal to zero, and the result
\* a response element is parsed into.
IsNumber(t) == t \in {"0", "0.0", "7"}

IsZero(t) == t \in {"0", "0.0"}

ResultKey(f) ==
    CASE f = "eos" -> "risk_birth"
      [] f = "well" -> "well_appearing"
      [] f = "equi" -> "equivocal"
      [] f = "clin" -> "clinical_illness"

\* C15: for each of the four result fields, a response whose element is
\* absent, empty or not a syntactically valid number parses to an absent
\* value, never to zero, and the parse completes; a field is zero only when
\* its text is a number equal to zero.
C15_EmptyIsAbsentNotZero ==
    /\ pc = "p_once" => ENABLED ParseOnce
    /\ pc \in {"p_again", "p_done"} =>
           \A f \in ResultFields :
               /\ ~IsNumber(response.text[f]) => result[ResultKey(f)] = None
               /\ result[ResultKey(f)] = Some(0) => IsZero(response.text[f])

\* One response with an empty, an unparsable, an absent and a zero element
\* has been parsed.
C15_Witness ==
    /\ pc = "p_again"
    /\ response.text.eos = ""
    /\ response.text.well = "1.2.3"
    /\ response.text.equi = NoElem
    /\ response.text.clin = "0.0"
    /\ result.risk_birth = None
    /\ result.well_appearing = None
    /\ result.equivocal = None
    /\ result.clinical_illness = Some(0)

ErrorContainers == response.text.err.containers

\* C16: the diagnostic text the response parser returns is non-empty only
\* if the response has an error container that is not marked hidden and has
\* non-empty text; a response with a hidden error container yields empty
\* diagnostic text.
C16_DiagnosticOnlyWhenShown ==
    pc \in {"p_again", "p_done"} =>
        /\ result.debug # "" =>
               \E k \in 1..Len(ErrorContainers) :
                   /\ ~ErrorContainers[k].hidden
                   /\ ErrorContainers[k].text # ""
        /\ (\E k \in 1..Len(ErrorContainers) : ErrorContainers[k].hidden)
               => result.debug = ""

\* A response with an empty container and a shown one has been parsed and
\* the shown text, stripped, is the diagnostic.
C16_Witness ==
    /\ pc = "p_again"
    /\ ErrorContainers = <<[hidden |-> FALSE, text |-> ""],
                           [hidden |-> FALSE, text |-> " Invalid input "]>>
    /\ ~response.text.err.elsewhere
    /\ result.debug = "Invalid input"

C17_Step == pc = "p_again" => session' = session

\* C17: refreshing the session twice in a row from the same response, from
\* any session state, leaves after the second refresh the state the first
\* one produced.
C17_RefreshIdempotent == [][C17_Step]_vars

\* The second refresh from a response that carries a new __VIEWSTATE and no
\* __EVENTVALIDATION is done.
C17_Witness ==
    /\ pc = "p_done"
    /\ response.text.vs = "b"
    /\ response.text.ev = NotInFrame
    /\ viewstate = Some("b")
    /\ event_validation = Some("a")

C18_Columns ==
    {<<"KP_RiskAtBirth", "risk_birth">>, <<"KP_WellAppearing", "well_appearing">>,
     <<"KP_Equivocal", "equivocal">>, <<"KP_ClinicalIllness", "clinical_illness">>}

\* C18: in the record just written, each of the four result columns holds
\* 'ERROR' if and only if the result value is absent, and a value of zero
\* is written as the number zero.
C18_SentinelIffAbsent ==
    pc \in {"wait", "loop"} /\ appended # << >> =>
        \A c \in C18_Columns :
            /\ LastRow[c[1]] = "ERROR" <=> result[c[2]] = None
            /\ result[c[2]] = Some(0) => LastRow[c[1]] = "0.0"

\* A record with a zero, a non-zero and two absent values has been written.
C18_Witness ==
    /\ pc = "wait"
    /\ result.risk_birth = Some(7)
    /\ result.well_appearing = Some(0)
    /\ result.equivocal = None
    /\ LastRow.KP_RiskAtBirth = "7.0"
    /\ LastRow.KP_WellAppearing = "0.0"
    /\ LastRow.KP_Equivocal = "ERROR"
    /\ LastRow.KP_ClinicalIllness = "ERROR"

C19_Step ==
    /\ (pc = "select" /\ response'.status = "raised") =>
          /\ pc' = "record"
          /\ session' = session
          /\ log' = Append(log, "select")
          /\ result'.risk_birth = None
          /\ result'.well_appearing = None
          /\ result'.equivocal = None
          /\ result'.clinical_illness = None
          /\ result'.debug # ""
    /\ (pc = "record" /\ Targets = <<"btnUSA">>) =>
          /\ pc' \in {"wait", "loop"}
          /\ log' = log
          /\ sent' = sent
          /\ session' = session
          /\ LastRow'.Debug = result.debug

\* C19: when the mode-switch exchange of an item fails, the item goes to
\* its record with no settle wait and no compute exchange, the session
\* tokens are unchanged, and the result is four absent values with a
\* non-empty diagnostic text.
C19_FailedSwitchSkipsCompute == [][C19_Step]_vars

\* The mode switch of the second item failed after the first item's
\* response had refreshed the tokens.
C19_Witness ==
    /\ pc = "record"
    /\ Targets = <<"btnUSA">>
    /\ appended # << >>
    /\ viewstate = Some("b")
    /\ result.debug = "Failed to select 2024 model"

C20_Step ==
    /\ Len(sent') = Len(sent) + 1 =>
          /\ sent'[Len(sent')].VIEWSTATE = seen.vs
          /\ sent'[Len(sent')].EVENTVALIDATION = seen.ev
    /\ (pc \in {"init", "select", "compute"} /\ response'.status = "raised") =>
          session' = session

\* C20: the __VIEWSTATE and __EVENTVALIDATION values each request carries
\* are those of the most recent earlier response that contained them (the
\* landing page, a mode-switch response or a compute response), and an
\* exchange that fails changes no token.
C20_TokenThreading == [][C20_Step]_vars

\* The compute request that follows a successful mode switch carries the
\* tokens of the mode-switch response, which differ from the landing
\* page's.
C20_Witness ==
    /\ pc = "parse"
    /\ Targets = <<"btnUSA", "btnCalc">>
    /\ sent[1].VIEWSTATE = Some("a")
    /\ sent[1].EVENTVALIDATION = Some("a")
    /\ sent[2].VIEWSTATE = Some("b")
    /\ sent[2].EVENTVALIDATION = Some("b")

\* The table of the sub-mode that was not requested.
OtherTable(m) == IF m = "2017" THEN INCIDENCE_2024 ELSE INCIDENCE_2017

\* C21: for a category that is in neither incidence table the compute
\* request carries the requested sub-mode's own table entry for "0.5", and
\* for every item the value sent is a value of the requested sub-mode's
\* table and not a value of the other sub-mode's table.
C21_FallbackOfRequestedSubMode ==
    pc \in {"parse", "record"} =>
        \A k \in ComputeRequests :
            /\ sent[k].ddlIncidence # None
            /\ Incidence(i) \notin DOMAIN INCIDENCE_2017 \cup DOMAIN INCIDENCE_2024
                   => sent[k].ddlIncidence = Some(Table(Case(i))["0.5"])
            /\ sent[k].ddlIncidence[1] \in Values(Table(Case(i)))
            /\ sent[k].ddlIncidence[1] \notin Values(OtherTable(Case(i)))

\* A 2024 case whose category is in neither table has sent its compute
\* request, which carries the 2024 entry for "0.5".
C21_Witness ==
    /\ pc = "parse"
    /\ Case(i) = "2024"
    /\ Incidence(i) \notin DOMAIN INCIDENCE_2017 \cup DOMAIN INCIDENCE_2024
    /\ \E k \in ComputeRequests :
           sent[k].ddlIncidence = Some(INCIDENCE_2024["0.5"])

====
